---- MODULE Spec2Model ----
(***************************************************************************)
(* Model of the candidate-intelligence pipeline of ETBackendV2:            *)
(*   - the SQL guardrail of the Guarded Query Agent (main/agent.py),       *)
(*     modelled on character strings exactly as the Python code computes;  *)
(*   - the resume-extraction life cycle of a CandidateProfile              *)
(*     (candidates/views.py, candidates/tasks.py) and the text extraction  *)
(*     by file type (candidates/resume_parser.py);                         *)
(*   - the ranking life cycle of a JobPost (main/views.py, main/tasks.py)  *)
(*     and the ranking algorithm (main/jobpost_candidate_ranker.py).       *)
(* Strings are TLA+ strings; Char(s, i) is the one-character string at i.  *)
(***************************************************************************)
EXTENDS Integers, Sequences, FiniteSets, TLC

VARIABLES
    sql,        \* the statement the language model handed to safe_sql_query
    sqlite,     \* is_sqlite(): the configured database engine is SQLite
    pc,         \* position of the safe_sql_query call
    clean,      \* value returned by validate_and_sanitize_sql ("" before)
    error,      \* kind and reason of the exception raised ("" when none)
    executed,   \* statements run on the database, in order
    cand,       \* the persisted CandidateProfile row
    queue,      \* dispatched parse_resume_task messages not yet picked up
    worker,     \* per worker: position and the in-memory candidate object
    submissions, \* number of parse-resume requests answered so far
    now,        \* the clock, in ticks
    marked_at,  \* history: when parse_resume_task last saved status parsing
    job,        \* the persisted JobPost row
    rqueue,     \* dispatched rank_candidates_task messages not yet picked up
    rworker,    \* per worker: position and the in-memory job objects
    rsubs,      \* number of rank-candidates requests answered so far
    ranking_at, \* history: when ranking_status last changed to ranking
    execs,      \* history: executions started, per dispatch
    pool,       \* the CandidateProfile rows, in the model's default ordering
    expanded,   \* what expand_job_skills yields for the job (NULL: it raises)
    llm,        \* what the scoring model answers, per candidate id
    document,   \* the resume file: its name, its content and what it shows
    host,       \* the worker host: PaddleOCR loads, mime.types knows .docx
    extraction  \* history: the last parse_resume call, its route and outcome

sqlvars == <<sql, sqlite, pc, clean, error, executed>>
parsevars == <<cand, queue, worker, submissions, now, marked_at>>
rankvars == <<job, rqueue, rworker, rsubs, ranking_at, execs, pool, expanded, llm>>
extractvars == <<document, host, extraction>>
vars == <<sql, sqlite, pc, clean, error, executed,
          cand, queue, worker, submissions, now, marked_at,
          job, rqueue, rworker, rsubs, ranking_at, execs, pool, expanded, llm,
          document, host, extraction>>

-----------------------------------------------------------------------------
(* Python str primitives *)

Char(s, i) == SubSeq(s, i, i)

Min(S) == CHOOSE x \in S : \A y \in S : x <= y

Max(S) == CHOOSE x \in S : \A y \in S : x >= y

UpperChars == "ABCDEFGHIJKLMNOPQRSTUVWXYZ"

LowerChars == "abcdefghijklmnopqrstuvwxyz"

DigitChars == "0123456789"

\* str.isspace() for the characters that occur
Whitespace == {" ", "\t", "\n", "\r"}

UpperSet == {Char(UpperChars, i) : i \in 1..26}

LowerSet == {Char(LowerChars, i) : i \in 1..26}

DigitSet == {Char(DigitChars, i) : i \in 1..10}

\* \w of the re module
WordChars == UpperSet \cup LowerSet \cup DigitSet \cup {"_"}

LowerMap ==
    [c \in UpperSet |-> Char(LowerChars, CHOOSE i \in 1..26 : Char(UpperChars, i) = c)]

LowerChar(c) == IF c \in UpperSet THEN LowerMap[c] ELSE c

RECURSIVE lower(_)
\* str.lower(), character by character
lower(s) ==
    IF Len(s) <= 1 THEN LowerChar(s)
    ELSE LET h == Len(s) \div 2
         IN  lower(SubSeq(s, 1, h)) \o lower(SubSeq(s, h + 1, Len(s)))

\* s[i : i + len(lit)] == lit, 1-based
at(s, i, lit) ==
    i >= 1 /\ i + Len(lit) - 1 <= Len(s) /\ SubSeq(s, i, i + Len(lit) - 1) = lit

\* str.startswith(p)
startswith(s, p) == at(s, 1, p)

\* positions at which sub occurs in s
Occurrences(s, sub) ==
    {i \in 1..(Len(s) - Len(sub) + 1) : SubSeq(s, i, i + Len(sub) - 1) = sub}

\* sub in s
contains(s, sub) == Occurrences(s, sub) # {}

\* str.find(sub, from), 1-based; 0 when absent
find(s, sub, from) ==
    LET I == {i \in Occurrences(s, sub) : i >= from}
    IN  IF I = {} THEN 0 ELSE Min(I)

\* str.lstrip()
lstrip(s) ==
    LET I == {i \in 1..Len(s) : Char(s, i) \notin Whitespace}
    IN  IF I = {} THEN "" ELSE SubSeq(s, Min(I), Len(s))

\* str.rstrip()
rstrip(s) ==
    LET I == {i \in 1..Len(s) : Char(s, i) \notin Whitespace}
    IN  IF I = {} THEN "" ELSE SubSeq(s, 1, Max(I))

\* str.strip()
strip(s) == lstrip(rstrip(s))

\* str.rstrip(c) for a one-character c
rstripChar(s, c) ==
    LET I == {i \in 1..Len(s) : Char(s, i) # c}
    IN  IF I = {} THEN "" ELSE SubSeq(s, 1, Max(I))

RECURSIVE split(_, _)
\* str.split(sep): the sequence of parts, non-overlapping, left to right
split(s, sep) ==
    LET i == find(s, sep, 1)
    IN  IF i = 0 THEN <<s>>
        ELSE <<SubSeq(s, 1, i - 1)>> \o split(SubSeq(s, i + Len(sep), Len(s)), sep)

RECURSIVE replace(_, _, _)
\* str.replace(old, new)
replace(s, old, new) ==
    LET i == find(s, old, 1)
    IN  IF i = 0 THEN s
        ELSE SubSeq(s, 1, i - 1) \o new
             \o replace(SubSeq(s, i + Len(old), Len(s)), old, new)

\* str.split() without argument: the whitespace-separated tokens; only the
\* first is used by the code, so this yields <<>> or <<first token>>
splitFirst(s) ==
    LET t == lstrip(s)
        E == {i \in 1..Len(t) : Char(t, i) \in Whitespace}
    IN  IF t = "" THEN <<>>
        ELSE IF E = {} THEN <<t>> ELSE <<SubSeq(t, 1, Min(E) - 1)>>

\* x.split(sep)[-1]
lastPart(s, sep) ==
    LET p == split(s, sep) IN p[Len(p)]

RECURSIVE int(_)
\* int() of a digit string
int(d) ==
    IF d = "" THEN 0
    ELSE 10 * int(SubSeq(d, 1, Len(d) - 1))
         + (CHOOSE k \in 0..9 : Char(DigitChars, k + 1) = Char(d, Len(d)))

-----------------------------------------------------------------------------
(* re primitives used by the guardrail *)

IsWordAt(s, i) == i >= 1 /\ i <= Len(s) /\ Char(s, i) \in WordChars

\* \b between position i and i + 1 (0 = before the first character)
boundary(s, i) == IsWordAt(s, i) # IsWordAt(s, i + 1)

\* re.search(r"\b<lit>\b", s, re.I) for a literal lit, given sl = s.lower():
\* matches or not
searchWord(sl, lit) ==
    \E i \in Occurrences(sl, lit) :
        boundary(sl, i - 1) /\ boundary(sl, i + Len(lit) - 1)

\* end of the run of characters of set C that starts at i (i - 1 if empty)
runEnd(s, i, C) ==
    LET stop == {j \in i..Len(s) : Char(s, j) \notin C}
    IN  IF stop = {} THEN Len(s) ELSE Min(stop) - 1

\* match of r"\blimit\s+(\d+)" anchored at i in the lowered string sl:
\* <<end of match, start of digits>> or <<0, 0>>
limitMatchAt(sl, i) ==
    IF ~(at(sl, i, "limit") /\ boundary(sl, i - 1)) THEN <<0, 0>>
    ELSE LET w == runEnd(sl, i + 5, Whitespace)
             d == runEnd(sl, w + 1, DigitSet)
         IN  IF w >= i + 5 /\ d >= w + 1 THEN <<d, w + 1>> ELSE <<0, 0>>

\* leftmost match of r"\blimit\s+(\d+)" at or after from: its start, or 0
limitSearch(sl, from) ==
    LET I == {i \in from..Len(sl) : limitMatchAt(sl, i)[1] # 0}
    IN  IF I = {} THEN 0 ELSE Min(I)

\* end of the match of one of the code's patterns anchored at i in the lowered
\* string sl, or 0:  "limit" r"\blimit\s+\d+", "ilike" r"\bilike\b",
\* "cast" r"::text", "ws" r"\s+"
matchEnd(sl, i, pat) ==
    CASE pat = "limit" -> limitMatchAt(sl, i)[1]
      [] pat = "ilike" ->
            IF at(sl, i, "ilike") /\ boundary(sl, i - 1) /\ boundary(sl, i + 4)
            THEN i + 4 ELSE 0
      [] pat = "cast" -> IF at(sl, i, "::text") THEN i + 5 ELSE 0
      [] pat = "ws" ->
            IF i <= Len(sl) /\ Char(sl, i) \in Whitespace
            THEN runEnd(sl, i, Whitespace) ELSE 0

RECURSIVE subFrom(_, _, _, _, _)
\* re.sub(pat, repl, s, flags=re.I) from position from on: every
\* non-overlapping match, left to right, replaced by repl
subFrom(s, sl, from, pat, repl) ==
    LET I == {i \in from..Len(s) : matchEnd(sl, i, pat) # 0}
    IN  IF I = {} THEN SubSeq(s, from, Len(s))
        ELSE LET i == Min(I)
             IN  SubSeq(s, from, i - 1) \o repl
                 \o subFrom(s, sl, matchEnd(sl, i, pat) + 1, pat, repl)

sub(pat, repl, s) == subFrom(s, lower(s), 1, pat, repl)

-----------------------------------------------------------------------------
(* main/agent.py: guardrail configuration *)

ALLOWED_TABLES == {"candidates_candidateprofile"}

ALLOWED_COLUMNS ==
    {"slug", "resume_data", "willing_to_relocate", "employment_type_preferences",
     "work_mode_preferences", "has_workvisa", "disability_categories",
     "accommodation_needs", "disclosure_preference", "workplace_accommodations",
     "expected_salary_range", "is_available"}

\* the patterns, all of the form r"\b<literal>\b", in the order of the code
FORBIDDEN_SQL_PATTERNS ==
    <<"\\bto_tsvector\\b", "\\bto_tsquery\\b", "\\b@@\\b", "\\bplainto_tsquery\\b",
      "\\bphraseto_tsquery\\b", "\\bwebsearch_to_tsquery\\b",
      "\\binsert\\b", "\\bupdate\\b", "\\bdelete\\b", "\\bdrop\\b", "\\balter\\b",
      "\\btruncate\\b", "\\bcreate\\b">>

\* the literal between the two \b of a pattern
literal(pat) == SubSeq(pat, 3, Len(pat) - 2)

MAX_LIMIT == 20

DEFAULT_LIMIT == 10

RECURSIVE str(_)
\* str() of a natural number, as the f-strings format the limits
str(n) ==
    IF n < 10 THEN Char(DigitChars, n + 1)
    ELSE str(n \div 10) \o Char(DigitChars, (n % 10) + 1)

\* _normalize_sql
normalize_sql(s) == sub("ws", " ", strip(s))

-----------------------------------------------------------------------------
(* main/agent.py: SQL parsing *)

\* the parts after each occurrence of kw, for both keywords of the loop
tableParts(s) ==
    LET sl == lower(s)
        parts(kw) == LET p == split(sl, kw) IN {p[i] : i \in 2..Len(p)}
    IN  parts(" from ") \cup parts(" join ")

\* part.strip().split()[0] raises IndexError when the part holds no token
tablesIndexError(s) == \E part \in tableParts(s) : splitFirst(strip(part)) = <<>>

\* token.rstrip(",") of part.strip().split()[0].replace('"', "").split(".")[-1]
tableToken(part) ==
    rstripChar(lastPart(replace(splitFirst(strip(part))[1], "\"", ""), "."), ",")

\* _extract_referenced_tables (as the set the code builds)
extract_referenced_tables(s) == {tableToken(part) : part \in tableParts(s)}

\* c.strip().split(" as ")[0].split(".")[-1]
columnToken(c) == lastPart(split(strip(c), " as ")[1], ".")

\* _extract_selected_columns (as the list the code builds)
extract_selected_columns(s) ==
    LET select_part == split(lower(s), "from")[1]
        cols == split(replace(select_part, "select", ""), ",")
    IN  SelectSeq([i \in 1..Len(cols) |-> columnToken(cols[i])],
                  LAMBDA c : c # "*")

\* re.search(r"\blimit\s+(\d+)", sql.lower()) is None
limitNoMatch(s) == limitSearch(lower(s), 1) = 0

\* int(re.search(r"\blimit\s+(\d+)", sql.lower()).group(1))
limitValue(s) ==
    LET sl == lower(s)
        m == limitMatchAt(sl, limitSearch(sl, 1))
    IN  int(SubSeq(sl, m[2], m[1]))

\* _enforce_limit, where the search matches
enforce_limit(s) ==
    IF ~contains(lower(s), "limit") THEN s \o " LIMIT " \o str(DEFAULT_LIMIT)
    ELSE IF limitValue(s) > MAX_LIMIT
         THEN sub("limit", "LIMIT " \o str(MAX_LIMIT), s)
         ELSE s

\* lines 174-175: the mandatory availability filter
force_filter(s) ==
    IF ~contains(lower(s), "is_available")
    THEN s \o (IF contains(lower(s), "where")
               THEN " AND is_available = TRUE" ELSE " WHERE is_available = TRUE")
    ELSE s

\* lines 178-180: SQLite compatibility rewrites
sqlite_fixes(s, lite) ==
    IF lite THEN sub("cast", "", sub("ilike", "LIKE", s)) ELSE s

-----------------------------------------------------------------------------
(* main/agent.py: validate_and_sanitize_sql, check by check *)

\* line 152
check_select(s) == startswith(lower(s), "select")

\* line 155 without the strip(): a trailing newline hides the terminator
check_single_unstripped(s) == ~contains(rstripChar(s, ";"), ";")

\* line 155
check_single(s) == ~contains(rstripChar(strip(s), ";"), ";")

\* lines 158-160: indices of the patterns that match
forbiddenHits(s) ==
    LET sl == lower(s)
    IN  {k \in 1..Len(FORBIDDEN_SQL_PATTERNS) :
            searchWord(sl, literal(FORBIDDEN_SQL_PATTERNS[k]))}

\* lines 162-165
badTables(s) == {t \in extract_referenced_tables(s) : t \notin ALLOWED_TABLES}

\* lines 167-170: positions of the columns outside the allow-list
badColumns(s) ==
    LET cols == extract_selected_columns(s)
    IN  {i \in 1..Len(cols) : cols[i] \notin ALLOWED_COLUMNS}

Raise(kind, msgs) == [kind |-> kind, msgs |-> msgs, sql |-> ""]

Return(s) == [kind |-> "return", msgs |-> {}, sql |-> s]

\* validate_and_sanitize_sql: what the call returns or raises.  msgs holds the
\* messages the exception may carry (the table named is the first of a set
\* iteration, so any disallowed one).
validate_and_sanitize_sql(s, lite) ==
    IF ~check_select(s) THEN Raise("ValueError", {"Only SELECT allowed"})
    ELSE IF ~check_single(s) THEN Raise("ValueError", {"Multiple statements blocked"})
    ELSE IF forbiddenHits(s) # {}
    THEN Raise("ValueError",
               {"Forbidden SQL detected: " \o FORBIDDEN_SQL_PATTERNS[Min(forbiddenHits(s))]})
    ELSE IF tablesIndexError(s) THEN Raise("IndexError", {"list index out of range"})
    ELSE IF badTables(s) # {}
    THEN Raise("ValueError", {"Table not allowed: " \o t : t \in badTables(s)})
    ELSE IF badColumns(s) # {}
    THEN Raise("ValueError",
               {"Column not allowed: " \o extract_selected_columns(s)[Min(badColumns(s))]})
    ELSE IF contains(lower(s), "limit") /\ limitNoMatch(s)
    THEN Raise("AttributeError", {"'NoneType' object has no attribute 'group'"})
    ELSE Return(normalize_sql(sqlite_fixes(force_filter(enforce_limit(s)), lite)))

-----------------------------------------------------------------------------
(* candidates/resume_parser.py: text extraction by file type                 *)
(* A document is [name, content, text, ocr]: the file name, what the bytes   *)
(* are ("pdf", "docx", "image", "other"), the text the file carries (text    *)
(* layer of the pages, or paragraphs) and the text an OCR engine reads.      *)

\* mimetypes.guess_type and detect_mime_type yield None
NoType == "None"

PDF_TYPE == "application/pdf"

DOCX_TYPE == "application/vnd.openxmlformats-officedocument.wordprocessingml.document"

\* a threshold one character higher
MinTextLayerPlusOne == 50 + 1

\* len(text.strip()) < 50, line 233
MinTextLayer == 50

\* Path(path).suffix: from the last dot of the last component, "" when the
\* component has no dot after its first character or ends with the dot
suffix(path) ==
    LET name == lastPart(path, "/")
        dots == {i \in 2..Len(name) : Char(name, i) = "."}
    IN  IF dots = {} \/ Max(dots) = Len(name) THEN ""
        ELSE SubSeq(name, Max(dots), Len(name))

\* the suffixes mimetypes knows without a mime.types file, with their types
TypesMap ==
    [ext \in {".pdf", ".png", ".jpg", ".jpeg", ".tif", ".tiff", ".bmp", ".txt", ".doc"} |->
        CASE ext = ".pdf" -> PDF_TYPE
          [] ext = ".png" -> "image/png"
          [] ext \in {".jpg", ".jpeg"} -> "image/jpeg"
          [] ext \in {".tif", ".tiff"} -> "image/tiff"
          [] ext = ".bmp" -> "image/bmp"
          [] ext = ".txt" -> "text/plain"
          [] ext = ".doc" -> "application/msword"]

\* mimetypes.guess_type(path)[0]: the suffix as written, then lowered; the
\* host's mime.types file, when there is one, adds .docx
guess_type(path, h) ==
    LET known(ext) == ext \in DOMAIN TypesMap \/ (h.mime_types /\ ext = ".docx")
        type(ext) == IF ext = ".docx" THEN DOCX_TYPE ELSE TypesMap[ext]
    IN  IF known(suffix(path)) THEN type(suffix(path))
        ELSE IF known(lower(suffix(path))) THEN type(lower(suffix(path)))
        ELSE NoType

\* detect_mime_type, lines 41-54
detect_mime_type(path, h) ==
    LET mime == guess_type(path, h)
        ext == lower(suffix(path))
    IN  IF mime # NoType THEN lower(mime)
        ELSE IF ext = ".pdf" THEN PDF_TYPE
        ELSE IF ext = ".docx" THEN DOCX_TYPE
        ELSE IF ext \in {".jpg", ".jpeg", ".png", ".tif", ".tiff", ".bmp"}
        THEN "image/" \o SubSeq(ext, 2, Len(ext))
        ELSE NoType

\* the outcome of a parser: the text returned, or the exception raised; route
\* lists the parsers called
Extracted(text, route) == [kind |-> "return", text |-> text, route |-> route]

Failed(kind, route) == [kind |-> kind, text |-> "", route |-> route]

\* parse_pdf_text, lines 61-69: pdfium opens PDF data only
parse_pdf_text(d) ==
    IF d.content = "pdf" THEN Extracted(strip(d.text), <<"parse_pdf_text">>)
    ELSE Failed("PdfiumError", <<"parse_pdf_text">>)

\* parse_pdf_ocr, lines 72-99: "" when PaddleOCR does not load
parse_pdf_ocr(d, h) ==
    IF ~h.paddle THEN Extracted("", <<"parse_pdf_ocr">>)
    ELSE IF d.content = "pdf" THEN Extracted(strip(d.ocr), <<"parse_pdf_ocr">>)
    ELSE Failed("PdfiumError", <<"parse_pdf_ocr">>)

\* parse_docx_text, lines 106-109: python-docx opens DOCX packages only
parse_docx_text(d) ==
    IF d.content = "docx" THEN Extracted(strip(d.text), <<"parse_docx_text">>)
    ELSE Failed("PackageNotFoundError", <<"parse_docx_text">>)

\* parse_image_text, lines 116-137: "" when PaddleOCR does not load or reads
\* nothing
parse_image_text(d, h) ==
    IF ~h.paddle \/ d.content # "image" THEN Extracted("", <<"parse_image_text">>)
    ELSE Extracted(strip(d.ocr), <<"parse_image_text">>)

\* _extract_text_by_type, lines 228-243, for the file d found at path
extract_text_by_type(path, d, h) ==
    LET mime == detect_mime_type(path, h)
    IN  IF mime = PDF_TYPE
        THEN IF parse_pdf_text(d).kind # "return" THEN parse_pdf_text(d)
             ELSE IF Len(strip(parse_pdf_text(d).text)) < MinTextLayer
             THEN [parse_pdf_ocr(d, h) EXCEPT !.route = <<"parse_pdf_text">> \o @]
             ELSE parse_pdf_text(d)
        ELSE IF mime = DOCX_TYPE THEN parse_docx_text(d)
        ELSE IF mime # NoType /\ startswith(mime, "image/") THEN parse_image_text(d, h)
        ELSE Failed("ValueError: Unsupported file format", <<>>)

\* parse_resume, lines 246-249: parse_information works on any text
parse_resume(path, d, h) == extract_text_by_type(path, d, h)

\* tmp.name of NamedTemporaryFile(suffix=".pdf"), candidates/tasks.py line 56
tmp_path == "/tmp/tmpresume.pdf"

NoExtraction == [kind |-> "none", text |-> "", route |-> <<>>, path |-> "", by |-> "none"]

\* the call recorded: its outcome, the path parsed and the caller
Recorded(outcome, path, by) ==
    [kind |-> outcome.kind, text |-> outcome.text, route |-> outcome.route,
     path |-> path, by |-> by]

\* parse_resume(file_path) called on the document under its own name
parse_resume_call ==
    /\ extraction = NoExtraction
    /\ extraction' = Recorded(parse_resume(document.name, document, host),
                              document.name, "call")
    /\ UNCHANGED <<document, host>>
    /\ UNCHANGED sqlvars
    /\ UNCHANGED parsevars
    /\ UNCHANGED rankvars

-----------------------------------------------------------------------------
(* candidates/models.py, candidates/tasks.py: the extraction life cycle of   *)
(* one CandidateProfile                                                      *)

\* the columns of the candidates_candidateprofile table
CandidateProfileColumns ==
    {"id", "user_id", "organization_id", "resume_file", "video_pitch",
     "resume_data", "parsing_status", "willing_to_relocate",
     "employment_type_preferences", "work_mode_preferences", "has_workvisa",
     "disability_categories", "accommodation_needs", "disclosure_preference",
     "workplace_accommodations", "expected_salary_range", "is_available",
     "slug", "created_at", "updated_at"}

\* parse-resume requests per behaviour
MaxSubmissions == 2

\* Celery worker processes
NumWorkers == 2

\* clock ticks per behaviour
MaxTime == 3

\* clock ticks that make one hour
TicksPerHour == 2

\* @shared_task(bind=True, max_retries=3, ...)
max_retries == 3

Workers == 1..NumWorkers

NULL == "NULL"

PARSING_STATUS == {"not_parsed", "parsing", "parsed", "failed"}

\* what parse_resume returns for the downloaded file
ParsedData == "resume fields"

IdleWorker == [pc |-> "idle", retries |-> 0, candidate |-> NULL]

\* candidate.save(update_fields=fields): writes the named fields of the
\* in-memory object; auto_now does not touch updated_at, which is not named
save(row, obj, fields) ==
    [f \in DOMAIN row |-> IF f \in fields THEN obj[f] ELSE row[f]]

\* CandidateViewSet.parse_resume_data: the answer for the row read
parse_resume_response(instance) ==
    IF ~instance.resume_file THEN "400 no resume file"
    ELSE IF instance.parsing_status = "parsed" /\ instance.resume_data # NULL
    THEN "200 already parsed"
    ELSE IF instance.parsing_status = "parsing" THEN "202 in progress"
    ELSE "202 started"

\* POST parse-resume; delay() either enqueues the task or raises (answer 500)
parse_resume_data ==
    /\ submissions < MaxSubmissions
    /\ submissions' = submissions + 1
    /\ \/ /\ parse_resume_response(cand) = "202 started"
          /\ queue' = [queue EXCEPT ![0] = @ + 1]
       \/ UNCHANGED queue
    /\ UNCHANGED <<cand, worker, now, marked_at>>
    /\ UNCHANGED sqlvars
    /\ UNCHANGED rankvars
    /\ UNCHANGED extractvars

\* parse_resume_task, line 30: a worker takes a dispatched task (first
\* execution or retry number r) and fetches the candidate
TaskFetch(w) ==
    /\ worker[w].pc = "idle"
    /\ \E r \in 0..max_retries :
        /\ queue[r] > 0
        /\ queue' = [queue EXCEPT ![r] = @ - 1]
        /\ worker' = [worker EXCEPT ![w] =
                        [pc |-> "fetched", retries |-> r, candidate |-> cand]]
    /\ UNCHANGED <<cand, submissions, now, marked_at>>
    /\ UNCHANGED sqlvars
    /\ UNCHANGED rankvars
    /\ UNCHANGED extractvars

\* parse_resume_task, lines 33-40: no file -> failed and return; otherwise mark
\* the candidate as parsing
TaskMark(w) ==
    /\ worker[w].pc = "fetched"
    /\ LET c == worker[w].candidate
       IN  IF ~c.resume_file
           THEN /\ cand' = save(cand, [c EXCEPT !.parsing_status = "failed"],
                                {"parsing_status"})
                /\ worker' = [worker EXCEPT ![w] = IdleWorker]
                /\ UNCHANGED marked_at
           ELSE /\ cand' = save(cand, [c EXCEPT !.parsing_status = "parsing"],
                                {"parsing_status"})
                /\ worker' = [worker EXCEPT ![w].pc = "marked",
                                            ![w].candidate.parsing_status = "parsing"]
                /\ marked_at' = now
    /\ UNCHANGED <<queue, submissions, now>>
    /\ UNCHANGED sqlvars
    /\ UNCHANGED rankvars
    /\ UNCHANGED extractvars

\* parse_resume_task, lines 48-81: the download succeeds, the content is
\* written to a temporary file named *.pdf, parse_resume returns and the
\* result is saved
TaskSucceed(w) ==
    /\ worker[w].pc = "marked"
    /\ \E outcome \in {parse_resume(tmp_path, document, host)} :
          /\ outcome.kind = "return"
          /\ extraction' = Recorded(outcome, tmp_path, "task")
    /\ cand' = save(cand, [worker[w].candidate EXCEPT !.resume_data = ParsedData,
                                                      !.parsing_status = "parsed"],
                    {"resume_data", "parsing_status"})
    /\ worker' = [worker EXCEPT ![w] = IdleWorker]
    /\ UNCHANGED <<queue, submissions, now, marked_at>>
    /\ UNCHANGED <<document, host>>
    /\ UNCHANGED sqlvars
    /\ UNCHANGED rankvars

\* parse_resume_task, lines 65 and 83-97: parse_resume raises on the
\* temporary file; the except block marks failed and retries while
\* retries < max_retries
TaskParseRaise(w) ==
    /\ worker[w].pc = "marked"
    /\ \E outcome \in {parse_resume(tmp_path, document, host)} :
          /\ outcome.kind # "return"
          /\ extraction' = Recorded(outcome, tmp_path, "task")
    /\ cand' = save(cand, [worker[w].candidate EXCEPT !.parsing_status = "failed"],
                    {"parsing_status"})
    /\ queue' = IF worker[w].retries < max_retries
                THEN [queue EXCEPT ![worker[w].retries + 1] = @ + 1]
                ELSE queue
    /\ worker' = [worker EXCEPT ![w] = IdleWorker]
    /\ UNCHANGED <<submissions, now, marked_at>>
    /\ UNCHANGED <<document, host>>
    /\ UNCHANGED sqlvars
    /\ UNCHANGED rankvars

\* parse_resume_task, lines 83-97: the download or the parse raised (also the
\* soft time limit): mark failed, then retry while retries < max_retries
TaskExcept(w) ==
    /\ worker[w].pc = "marked"
    /\ cand' = save(cand, [worker[w].candidate EXCEPT !.parsing_status = "failed"],
                    {"parsing_status"})
    /\ queue' = IF worker[w].retries < max_retries
                THEN [queue EXCEPT ![worker[w].retries + 1] = @ + 1]
                ELSE queue
    /\ worker' = [worker EXCEPT ![w] = IdleWorker]
    /\ UNCHANGED <<submissions, now, marked_at>>
    /\ UNCHANGED sqlvars
    /\ UNCHANGED rankvars
    /\ UNCHANGED extractvars

\* time_limit=1800: the worker process is killed, nothing more is written
TaskKilled(w) ==
    /\ worker[w].pc = "marked"
    /\ worker' = [worker EXCEPT ![w] = IdleWorker]
    /\ UNCHANGED <<cand, queue, submissions, now, marked_at>>
    /\ UNCHANGED sqlvars
    /\ UNCHANGED rankvars
    /\ UNCHANGED extractvars

\* cleanup_failed_parsing_tasks: parsing rows not updated for an hour are reset
\* (QuerySet.update writes parsing_status only)
cleanup_failed_parsing_tasks ==
    /\ cand' = IF cand.parsing_status = "parsing"
                  /\ cand.updated_at < now - TicksPerHour
               THEN [cand EXCEPT !.parsing_status = "not_parsed"]
               ELSE cand
    /\ UNCHANGED <<queue, worker, submissions, now, marked_at>>
    /\ UNCHANGED sqlvars
    /\ UNCHANGED rankvars
    /\ UNCHANGED extractvars

Tick ==
    /\ now < MaxTime
    /\ now' = now + 1
    /\ UNCHANGED <<cand, queue, worker, submissions, marked_at>>
    /\ UNCHANGED sqlvars
    /\ UNCHANGED rankvars
    /\ UNCHANGED extractvars

-----------------------------------------------------------------------------
(* main/jobpost_candidate_ranker.py: the ranking algorithm                   *)

\* a nullable value: None, or Some(x)
None == <<>>

Some(x) == <<x>>

\* JSON values of a score: a number, a string, null, or the key is absent
Num(n) == [type |-> "num", v |-> n, s |-> ""]

Str(t) == [type |-> "str", v |-> 0, s |-> t]

Null == [type |-> "null", v |-> 0, s |-> ""]

Missing == [type |-> "missing", v |-> 0, s |-> ""]

WORKPLACE_TYPES == <<"Hybrid", "On-Site", "Remote">>

WORK_TYPES ==
    <<"Full-time", "Part-time", "Contract", "Temporary", "Other", "Volunteer",
      "Internship">>

\* dict(WORKPLACE_TYPES).get(job.workplace_type, "Not specified")
workplace(j) ==
    IF j.workplace_type \in DOMAIN WORKPLACE_TYPES
    THEN WORKPLACE_TYPES[j.workplace_type] ELSE "Not specified"

\* dict(WORK_TYPES).get(job.job_type, "Not specified")
job_type_text(j) ==
    IF j.job_type \in DOMAIN WORK_TYPES THEN WORK_TYPES[j.job_type] ELSE "Not specified"

\* the elements of a sequence
Range(q) == {q[i] : i \in 1..Len(q)}

\* [f(x) for x in q] for the string functions used
lowerAll(q) == [i \in 1..Len(q) |-> lower(q[i])]

\* expand_job_skills: the skills of the parsed completion, lowered and stripped
expand_job_skills(skills) == [i \in 1..Len(skills) |-> strip(lower(skills[i]))]

\* extract_resume_skills: the names of the "skills" list, lowered and stripped
extract_resume_skills(resume_json) ==
    {strip(lower(resume_json.skills[i])) : i \in 1..Len(resume_json.skills)}

RECURSIVE join(_, _)
\* sep.join(q)
join(q, sep) ==
    IF q = <<>> THEN ""
    ELSE IF Len(q) = 1 THEN q[1]
    ELSE q[1] \o sep \o join(Tail(q), sep)

\* json.dumps of a resume_data {"skills": [{"name": ...}, ...], "summary": ...}
dumps(resume_json) ==
    "{\"skills\": ["
    \o join([i \in 1..Len(resume_json.skills) |->
                "{\"name\": \"" \o resume_json.skills[i] \o "\"}"], ", ")
    \o "], \"summary\": \"" \o resume_json.summary \o "\"}"

\* the query without the has_workvisa filter
candidates_qs_any_visa(j, table) ==
    SelectSeq(table, LAMBDA c : c.is_available /\ c.resume_data # None)

\* lines 111-117: CandidateProfile.objects.filter(...), in the default
\* ordering of the model; the rows of table that pass
candidates_qs(j, table) ==
    SelectSeq(table,
              LAMBDA c : /\ c.is_available
                         /\ c.resume_data # None
                         /\ (j.visa_required => c.has_workvisa))

\* lines 125-132: the skill overlap of one candidate
overlap(c, expanded_skills) ==
    LET resume_json == c.resume_data[1]
        direct == Cardinality(Range(expanded_skills)
                              \cap extract_resume_skills(resume_json))
        resume_text_blob == lower(dumps(resume_json))
    IN  IF direct # 0 THEN direct
        ELSE Cardinality({i \in 1..Len(expanded_skills) :
                             contains(resume_text_blob, expanded_skills[i])})

\* lines 138-148
work_bonus(j, c) ==
    IF lower(workplace(j)) \in Range(lowerAll(c.work_mode_preferences)) THEN 1 ELSE 0

type_bonus(j, c) ==
    IF lower(job_type_text(j)) \in Range(lowerAll(c.employment_type_preferences))
    THEN 1 ELSE 0

\* the score without the two preference bonuses
heuristic_score_no_bonus(j, c, expanded_skills) == overlap(c, expanded_skills) * 3

heuristic_score(j, c, expanded_skills) ==
    overlap(c, expanded_skills) * 3 + work_bonus(j, c) + type_bonus(j, c)

\* lines 122-150: the (score, candidate) pairs, in query order, without the
\* candidates of overlap 0
scored(j, table, expanded_skills) ==
    LET qs == candidates_qs(j, table)
        hits == SelectSeq(qs, LAMBDA c : overlap(c, expanded_skills) # 0)
    IN  [i \in 1..Len(hits) |->
            [score |-> heuristic_score(j, hits[i], expanded_skills), c |-> hits[i]]]

\* the characters of the strings compared, in code point order
AsciiOrder == " " \o DigitChars \o UpperChars \o "_" \o LowerChars

ord(c) == CHOOSE i \in 1..Len(AsciiOrder) : Char(AsciiOrder, i) = c

RECURSIVE strLess(_, _)
\* a < b on str
strLess(a, b) ==
    IF b = "" THEN FALSE
    ELSE IF a = "" THEN TRUE
    ELSE IF Char(a, 1) # Char(b, 1) THEN ord(Char(a, 1)) < ord(Char(b, 1))
    ELSE strLess(SubSeq(a, 2, Len(a)), SubSeq(b, 2, Len(b)))

\* a < b does not raise TypeError: two numbers or two strings
orderable(a, b) ==
    \/ a.type = "num" /\ b.type = "num"
    \/ a.type = "str" /\ b.type = "str"

\* a < b for orderable a, b
less(a, b) == IF a.type = "num" THEN a.v < b.v ELSE strLess(a.s, b.s)

\* list.sort raises TypeError: it has to compare two keys that are not orderable
sortRaises(keys) ==
    \E i, k \in 1..Len(keys) : i # k /\ ~orderable(keys[i], keys[k])

\* a descending sort that puts elements of equal key in reverse order
sortDescReversed(q, keys) ==
    LET n == Len(q)
        rank(i) == 1 + Cardinality({k \in 1..n :
                        /\ k # i
                        /\ \/ less(keys[i], keys[k])
                           \/ k > i /\ ~less(keys[k], keys[i])})
    IN  [p \in 1..n |-> q[CHOOSE i \in 1..n : rank(i) = p]]

\* q.sort(key=..., reverse=True) with the keys given alongside: descending,
\* elements of equal key in their original order
sortDesc(q, keys) ==
    LET n == Len(q)
        rank(i) == 1 + Cardinality({k \in 1..n :
                        /\ k # i
                        /\ \/ less(keys[i], keys[k])
                           \/ k < i /\ ~less(keys[k], keys[i])})
    IN  [p \in 1..n |-> q[CHOOSE i \in 1..n : rank(i) = p]]

\* x[:k]
take(q, k) == SubSeq(q, 1, Min({k, Len(q)}))

\* lines 152-155: the heuristic order and its first five candidates
heuristic_order(j, table, expanded_skills) ==
    LET sc == scored(j, table, expanded_skills)
        st == sortDesc(sc, [i \in 1..Len(sc) |-> Num(sc[i].score)])
    IN  [i \in 1..Len(st) |-> st[i].c]

\* the selection taking the first six of the heuristic order
selected_six(j, table, expanded_skills) ==
    take(heuristic_order(j, table, expanded_skills), 6)

\* lines 155-160: the candidates selected for scoring
selected(j, table, expanded_skills) ==
    LET top == take(heuristic_order(j, table, expanded_skills), 5)
        ids == {top[i].id : i \in 1..Len(top)}
        additional == take(SelectSeq(candidates_qs(j, table), LAMBDA c : c.id \notin ids),
                           3 - Len(top))
    IN  IF Len(top) < 3 THEN top \o additional ELSE top

\* len(encoding.encode(text)): a token for every four characters begun
tokens(text) == (Len(text) + 3) \div 4

system_msg == "You are an AI Talent Matcher."

\* lines 91-106 and 205-219: the prompt of the scoring call for candidate c
prompt(j, c) ==
    "Rate candidate match on a scale of 0-100. JOB: Workplace Mode: " \o workplace(j)
    \o " Job Type: " \o job_type_text(j)
    \o " CANDIDATE: " \o dumps(c.resume_data[1])
    \o " Return JSON: {\"score\": number, \"reasons\": [...]}"

\* response.choices[0].message.content of an answer that did not raise
message_content(r) ==
    IF r.kind = "text" THEN "I cannot rate this candidate."
    ELSE "{"
         \o (CASE r.score.type = "num" ->
                    "\"score\": " \o (IF r.score.v < 0 THEN "-" \o str(0 - r.score.v)
                                      ELSE str(r.score.v))
               [] r.score.type = "str" -> "\"score\": \"" \o r.score.s \o "\""
               [] r.score.type = "null" -> "\"score\": null"
               [] OTHER -> "")
         \o (IF r.has_reasons THEN ", \"reasons\": [\"fit\"]" ELSE "")
         \o "}"

\* the entry is appended inside the try: the call returned JSON text that has
\* both keys
scored_ok(r) == r.kind = "json" /\ r.score.type # "missing" /\ r.has_reasons

\* lines 221-249, one pass of the loop: the tokens added to the two totals and
\* the cost added, in units of 0.00001 (0.01 per 1000 input tokens, 0.03 per
\* 1000 output tokens); the cost is added only after the entry was appended
call_usage(j, c, r) ==
    LET input_tokens == tokens(system_msg) + tokens(prompt(j, c))
        output_tokens == IF r.kind = "raise" THEN 0 ELSE tokens(message_content(r))
    IN  [input |-> input_tokens, output |-> output_tokens,
         cost |-> IF scored_ok(r) THEN input_tokens + 3 * output_tokens ELSE 0]

RECURSIVE Sum(_)
\* sum(q)
Sum(q) == IF q = <<>> THEN 0 ELSE Head(q) + Sum(Tail(q))

\* lines 224-257: the entry appended for one candidate, given the answer of
\* the scoring call
rank_entry(c, r) ==
    IF scored_ok(r)
    THEN [candidate_id |-> c.id, score |-> r.score, reasons |-> r.reasons]
    ELSE [candidate_id |-> c.id, score |-> Num(0), reasons |-> <<"Ranking error">>]

NoUsage == [input_tokens |-> 0, output_tokens |-> 0, total_tokens |-> 0]

\* final_rank_with_llm: the sorted entries with the token totals and the
\* cost, or the TypeError of the sort
final_rank_with_llm(j, candidates, responses) ==
    LET ranked_results ==
            [i \in 1..Len(candidates) |-> rank_entry(candidates[i], responses[candidates[i].id])]
        keys == [i \in 1..Len(candidates) |-> ranked_results[i].score]
        usage == [i \in 1..Len(candidates) |->
                    call_usage(j, candidates[i], responses[candidates[i].id])]
        total_input_tokens == Sum([i \in 1..Len(candidates) |-> usage[i].input])
        total_output_tokens == Sum([i \in 1..Len(candidates) |-> usage[i].output])
    IN  IF sortRaises(keys)
        THEN [kind |-> "TypeError", ranked |-> <<>>, token_usage |-> NoUsage, cost |-> 0]
        ELSE [kind |-> "return", ranked |-> sortDesc(ranked_results, keys),
              token_usage |-> [input_tokens |-> total_input_tokens,
                               output_tokens |-> total_output_tokens,
                               total_tokens |-> total_input_tokens + total_output_tokens],
              cost |-> Sum([i \in 1..Len(candidates) |-> usage[i].cost])]

\* lines 165-183: the selected candidates go to final_rank_with_llm; the
\* result dictionary, or the exception raised (calls: the candidates scored)
rank_selected(j, sel, responses) ==
    CHOOSE result \in
        {[kind |-> fr.kind,
          ranked_candidates |-> fr.ranked,
          token_usage |-> fr.token_usage,
          estimated_cost |-> fr.cost,
          calls |-> [i \in 1..Len(sel) |-> sel[i].id]] :
            fr \in {final_rank_with_llm(j, sel, responses)}} : TRUE

\* ranking_algo, lines 86-183 (skills: the outcome of the skill expansion
\* call, None when it raises)
ranking_algo(j, table, skills, responses) ==
    IF skills = None
    THEN [kind |-> "Exception", ranked_candidates |-> <<>>, token_usage |-> NoUsage,
          estimated_cost |-> 0, calls |-> <<>>]
    ELSE CHOOSE result \in
            {rank_selected(j, sel, responses) :
                sel \in {selected(j, table, expand_job_skills(skills[1]))}} : TRUE

-----------------------------------------------------------------------------
(* main/views.py, main/tasks.py: the ranking life cycle of one JobPost       *)

\* rank-candidates requests per behaviour
MaxRankSubmissions == 2

\* Celery worker processes that take ranking tasks
NumRankWorkers == 2

RankWorkers == 1..NumRankWorkers

RANKING_STATUS == {"not_ranked", "ranking", "ranked", "failed"}

\* timedelta(hours=2), in ticks
RankingTimeout == 2 * TicksPerHour

NoResult ==
    [kind |-> "none", ranked_candidates |-> <<>>, token_usage |-> NoUsage,
     estimated_cost |-> 0, calls |-> <<>>]

IdleRankWorker ==
    [pc |-> "idle", id |-> 0, retries |-> 0, job |-> None, result |-> NoResult]

\* a JobPost as created at time t: the model defaults
NewJobPost(t, visa) ==
    [ranking_status |-> "not_ranked", candidate_ranking_data |-> None,
     ranking_task_id |-> 0, visa_required |-> visa, workplace_type |-> 3,
     job_type |-> 1, created_at |-> t]

\* the dictionary rank_candidates_task stores, lines 31-36
ranking_data(result) ==
    [ranked_candidates |-> result.ranked_candidates,
     token_usage |-> result.token_usage,
     estimated_cost |-> result.estimated_cost]

\* JobPostViewSet.rank_candidates: the answer for the row read
rank_candidates_response(j) ==
    IF j.ranking_status = "ranked" /\ j.candidate_ranking_data # None
    THEN "200 already ranked"
    ELSE IF j.ranking_status = "ranking" THEN "202 in progress"
    ELSE "202 started"

\* POST rank-candidates, lines 95-142: save status ranking, dispatch, save the
\* task id; when delay() raises the status is already saved and the answer is 500
rank_candidates ==
    /\ rsubs < MaxRankSubmissions
    /\ rsubs' = rsubs + 1
    /\ IF rank_candidates_response(job) = "202 started"
       THEN /\ ranking_at' = now
            /\ \/ /\ job' = [job EXCEPT !.ranking_status = "ranking",
                                        !.ranking_task_id = rsubs + 1]
                  /\ rqueue' = rqueue \cup {[id |-> rsubs + 1, retries |-> 0]}
               \/ /\ job' = [job EXCEPT !.ranking_status = "ranking"]
                  /\ UNCHANGED rqueue
       ELSE UNCHANGED <<job, rqueue, ranking_at>>
    /\ UNCHANGED <<rworker, execs, pool, expanded, llm>>
    /\ UNCHANGED sqlvars
    /\ UNCHANGED parsevars
    /\ UNCHANGED extractvars

\* rank_candidates_task, lines 19-28, and ranking_algo, line 76: a worker takes
\* a dispatched task (first execution or retry), marks the job post as ranking
\* and enters ranking_algo, which loads its own copy of the job post
RankStart(w) ==
    /\ rworker[w].pc = "idle"
    /\ job' = [job EXCEPT !.ranking_status = "ranking"]
    /\ \E t \in rqueue :
        /\ rqueue' = rqueue \ {t}
        /\ rworker' = [rworker EXCEPT ![w] =
                         [IdleRankWorker EXCEPT !.pc = "in_algo", !.id = t.id,
                                                !.retries = t.retries,
                                                !.job = Some(job')]]
        /\ execs' = [execs EXCEPT ![t.id] = @ + 1]
    /\ ranking_at' = IF job.ranking_status = "ranking" THEN ranking_at ELSE now
    /\ UNCHANGED <<rsubs, pool, expanded, llm>>
    /\ UNCHANGED sqlvars
    /\ UNCHANGED parsevars
    /\ UNCHANGED extractvars

\* ranking_algo, lines 86-189: the result is computed and job.save() writes
\* every field of the copy loaded at line 76
RankAlgoSave(w) ==
    /\ rworker[w].pc = "in_algo"
    /\ \E result \in {ranking_algo(rworker[w].job[1], pool, expanded, llm)} :
           /\ result.kind = "return"
           /\ job' = [rworker[w].job[1] EXCEPT
                        !.candidate_ranking_data = Some(ranking_data(result)),
                        !.ranking_status = "ranked"]
           /\ rworker' = [rworker EXCEPT ![w].pc = "algo_done", ![w].result = result]
    /\ UNCHANGED <<rqueue, rsubs, ranking_at, execs, pool, expanded, llm>>
    /\ UNCHANGED sqlvars
    /\ UNCHANGED parsevars
    /\ UNCHANGED extractvars

\* rank_candidates_task, lines 31-53: the task stores the result and the status
RankSave(w) ==
    /\ rworker[w].pc = "algo_done"
    /\ job' = [job EXCEPT
                 !.candidate_ranking_data = Some(ranking_data(rworker[w].result)),
                 !.ranking_status = "ranked"]
    /\ rworker' = [rworker EXCEPT ![w] = IdleRankWorker]
    /\ UNCHANGED <<rqueue, rsubs, ranking_at, execs, pool, expanded, llm>>
    /\ UNCHANGED sqlvars
    /\ UNCHANGED parsevars
    /\ UNCHANGED extractvars

\* the except block retrying whatever the number of retries made
RankFailedUnbounded(w) ==
    /\ job' = [job EXCEPT !.ranking_status = "failed"]
    /\ rqueue' = rqueue \cup {[id |-> rworker[w].id, retries |-> rworker[w].retries + 1]}
    /\ rworker' = [rworker EXCEPT ![w] = IdleRankWorker]
    /\ UNCHANGED <<rsubs, ranking_at, execs, pool, expanded, llm>>
    /\ UNCHANGED sqlvars
    /\ UNCHANGED parsevars
    /\ UNCHANGED extractvars

\* rank_candidates_task, lines 55-71: the except block marks the job failed and
\* retries while retries < max_retries
RankFailed(w) ==
    /\ job' = [job EXCEPT !.ranking_status = "failed"]
    /\ rqueue' = IF rworker[w].retries < max_retries
                 THEN rqueue \cup {[id |-> rworker[w].id,
                                    retries |-> rworker[w].retries + 1]}
                 ELSE rqueue
    /\ rworker' = [rworker EXCEPT ![w] = IdleRankWorker]
    /\ UNCHANGED <<rsubs, ranking_at, execs, pool, expanded, llm>>
    /\ UNCHANGED sqlvars
    /\ UNCHANGED parsevars
    /\ UNCHANGED extractvars

\* ranking_algo raises (the skill expansion call, or the sort of the entries)
RankAlgoRaise(w) ==
    /\ rworker[w].pc = "in_algo"
    /\ ranking_algo(rworker[w].job[1], pool, expanded, llm).kind # "return"
    /\ RankFailed(w)

\* soft_time_limit=1500: SoftTimeLimitExceeded is raised in the task body,
\* wherever it stands
RankTimeout(w) ==
    /\ rworker[w].pc \in {"in_algo", "algo_done"}
    /\ RankFailed(w)

\* time_limit=1800: the worker process is killed, nothing more is written
RankKilled(w) ==
    /\ rworker[w].pc \in {"in_algo", "algo_done"}
    /\ rworker' = [rworker EXCEPT ![w] = IdleRankWorker]
    /\ UNCHANGED <<job, rqueue, rsubs, ranking_at, execs, pool, expanded, llm>>
    /\ UNCHANGED sqlvars
    /\ UNCHANGED parsevars
    /\ UNCHANGED extractvars

\* a sweep that finds no job post to reset
cleanup_finds_nothing ==
    /\ UNCHANGED <<job, rqueue, rworker, rsubs, ranking_at, execs, pool, expanded, llm>>
    /\ UNCHANGED sqlvars
    /\ UNCHANGED parsevars
    /\ UNCHANGED extractvars

\* cleanup_failed_ranking_tasks: ranking jobs created more than two hours ago
\* are reset (QuerySet.update writes the two named fields)
cleanup_failed_ranking_tasks ==
    /\ job' = IF job.ranking_status = "ranking"
                 /\ job.created_at < now - RankingTimeout
              THEN [job EXCEPT !.ranking_status = "not_ranked", !.ranking_task_id = 0]
              ELSE job
    /\ UNCHANGED <<rqueue, rworker, rsubs, ranking_at, execs, pool, expanded, llm>>
    /\ UNCHANGED sqlvars
    /\ UNCHANGED parsevars
    /\ UNCHANGED extractvars

\* the job types an edit may set
EditedJobTypes == {1, 2}

\* JobPostViewSet.update and JobPostCreateSerializer.update: the request loads
\* the job post, sets the validated fields and saves it, all within the request
update ==
    /\ \E visa \in BOOLEAN, jt \in EditedJobTypes :
          /\ <<visa, jt>> # <<job.visa_required, job.job_type>>
          /\ job' = [job EXCEPT !.visa_required = visa, !.job_type = jt]
    /\ UNCHANGED <<rqueue, rworker, rsubs, ranking_at, execs, pool, expanded, llm>>
    /\ UNCHANGED sqlvars
    /\ UNCHANGED parsevars
    /\ UNCHANGED extractvars

-----------------------------------------------------------------------------
(* The candidates, the skill expansion and the scoring answers a ranking     *)
(* run may meet                                                              *)

\* the largest candidate id of the table
MaxCandidates == 10

\* how far outside 0..100 a returned score lies
ScoreExcess == 5

Resume(skills, summary) == Some([skills |-> skills, summary |-> summary])

Profile(id, available, resume, visa, modes, types) ==
    [id |-> id, is_available |-> available, resume_data |-> resume,
     has_workvisa |-> visa, work_mode_preferences |-> modes,
     employment_type_preferences |-> types]

\* the CandidateProfile row of each id
Candidate(id) ==
    CASE id = 1 -> Profile(1, TRUE, Resume(<<"Python", "Django", "SQL">>, ""),
                           FALSE, <<"Remote">>, <<"Full-time">>)
      [] id = 2 -> Profile(2, TRUE, Resume(<<"python", "sql">>, ""), TRUE, <<>>, <<>>)
      [] id = 3 -> Profile(3, TRUE, Resume(<<" SQL ">>, ""), TRUE, <<"REMOTE">>, <<>>)
      [] id = 4 -> Profile(4, TRUE, Resume(<<"Rust">>, "worked with Django and sql"),
                           TRUE, <<>>, <<>>)
      [] id = 5 -> Profile(5, TRUE, Resume(<<"Cobol">>, ""), TRUE, <<"Remote">>, <<>>)
      [] id = 6 -> Profile(6, FALSE, Resume(<<"Python", "Django", "SQL">>, ""),
                           TRUE, <<"Remote">>, <<"Full-time">>)
      [] id = 7 -> Profile(7, TRUE, None, TRUE, <<"Remote">>, <<"Full-time">>)
      [] id = 8 -> Profile(8, TRUE, Resume(<<"Django">>, ""), TRUE, <<"Hybrid">>,
                           <<"full-time">>)
      [] id = 9 -> Profile(9, TRUE, Resume(<<"SQL", "Python">>, ""), TRUE, <<>>, <<>>)
      [] OTHER -> Profile(id, TRUE, Resume(<<"Python">>, ""), id % 2 = 0, <<>>, <<>>)

\* the table holding the candidates a..b, ordered by id (Meta.ordering)
Table(a, b) == [i \in 1..(b - a + 1) |-> Candidate(a + i - 1)]

CandidateTables == {Table(a, b) : a \in 1..MaxCandidates, b \in 0..MaxCandidates}

\* completions of the skill expansion call; None: the call raises
Expansions == {Some(<<"Python ", "django", "SQL">>), Some(<<>>), None}

Answer(kind, score, has_reasons) ==
    [kind |-> kind, score |-> score, has_reasons |-> has_reasons,
     reasons |-> IF has_reasons THEN <<"fit">> ELSE <<>>]

\* the answer for a candidate when nothing goes wrong: a score from 40 to 60
Good(id) == Answer("json", Num(40 + 10 * (id % 3)), TRUE)

\* answers of the scoring call: it raises, the content is no JSON text, a key
\* is missing, the score is no number, or it lies on or outside the scale
Deviations ==
    {Answer("raise", Missing, FALSE), Answer("text", Missing, FALSE),
     Answer("json", Missing, TRUE), Answer("json", Num(70), FALSE),
     Answer("json", Str("85"), TRUE), Answer("json", Null, TRUE),
     Answer("json", Num(0), TRUE), Answer("json", Num(100), TRUE),
     Answer("json", Num(100 + ScoreExcess), TRUE),
     Answer("json", Num(0 - ScoreExcess), TRUE)}

\* the ids whose answer may deviate
Deviants == {2, 3, 9}

\* every candidate answered well, or one of them with a deviating answer
Answers ==
    {[id \in 1..MaxCandidates |-> Good(id)]}
    \cup {[id \in 1..MaxCandidates |-> IF id = f THEN d ELSE Good(id)] :
            f \in Deviants, d \in Deviations}

\* the ranking side at rest: a job post never ranked, created just now or
\* longer ago than the sweep's timeout
RankIdle ==
    /\ job \in {NewJobPost(0 - age, visa) :
                  age \in {0, RankingTimeout + 1}, visa \in BOOLEAN}
    /\ rqueue = {}
    /\ rworker = [w \in RankWorkers |-> IdleRankWorker]
    /\ rsubs = 0
    /\ ranking_at = 0
    /\ execs = [d \in 1..MaxRankSubmissions |-> 0]

\* the table and the answers of the life-cycle behaviours; the skill
\* expansion call succeeds or raises
RankFixture ==
    /\ pool = Table(2, 3)
    /\ expanded \in {Some(<<"Python ", "django", "SQL">>), None}
    /\ llm = [id \in 1..MaxCandidates |-> Good(id)]

-----------------------------------------------------------------------------
(* Statements the language model may hand to the tool: bounded families      *)
(* head cols FROM tables [where] [limit] [end], each part from a small set   *)

\* how far below and above MAX_LIMIT the LIMIT values of the inputs range
LimitSpread == 2

\* the longest run of trailing semicolons of the inputs
MaxSemis == 2

RECURSIVE Semis(_)
Semis(k) == IF k = 0 THEN "" ELSE ";" \o Semis(k - 1)

T0 == "candidates_candidateprofile"

Heads == {"select", "SeLeCt", "\n select", "delete", "explain select"}

Cols ==
    {"slug", "*", "slug, is_available", "slug, password",
     "slug AS xfrom, password", "c.slug as s, c.resume_data",
     "slug as unlimited", "count(*)"}

\* the whitespace before and after the FROM keyword
Seps == {<<" ", " ">>, <<"\n", "\n">>, <<"  ", "\t">>}

Tables ==
    {T0, "users_user", T0 \o ", users_user",
     T0 \o " c join users_user u on u.id = c.user_id",
     T0 \o " c\njoin users_user u on u.id = c.user_id",
     "public." \o T0, "\"" \o T0 \o "\"", ""}

Wheres ==
    {"", " where is_available = true", " WHERE slug <> 'a'",
     " where resume_data::text ILIKE '%python%'",
     " where resume_data @@ 'python'", " where slug@@slug",
     " where to_tsvector(slug) is null",
     " where slug <> 'limit 5'", " where slug <> 'DrOp'",
     " where slug <> 'dropped'",
     " where slug in (select slug from " \o T0 \o " limit 5)"}

LimitValues ==
    {5, DEFAULT_LIMIT} \cup ((MAX_LIMIT - LimitSpread)..(MAX_LIMIT + LimitSpread))

Limits ==
    {"", " limit all"} \cup {" limit " \o str(n) : n \in LimitValues}
    \cup {" LIMIT  " \o str(n) : n \in {MAX_LIMIT, MAX_LIMIT + LimitSpread}}

Ends ==
    {Semis(k) : k \in 0..MaxSemis}
    \cup {" ;\n", "; delete from " \o T0, "; ;"}

Build(h, c, sep, t, w, l, e) ==
    h \o " " \o c \o sep[1] \o "from" \o sep[2] \o t \o w \o l \o e

Inputs ==
    {Build(h, c, <<" ", " ">>, T0, w, l, e) :
        h \in Heads, c \in {"slug", "*"}, w \in {"", " where is_available = true"},
        l \in {"", " limit 5"}, e \in Ends}
    \cup
    {Build("select", c, sep, t, w, "", "") :
        c \in Cols, sep \in Seps, t \in Tables,
        w \in {"", " where is_available = true"}}
    \cup
    {Build(h, c, <<" ", " ">>, T0, w, l, e) :
        h \in {"select", "SELECT"}, c \in {"slug", "slug, is_available"},
        w \in Wheres, l \in Limits, e \in {"", ";"}}

-----------------------------------------------------------------------------
(* The safe_sql_query tool *)

\* a CandidateProfile as created: the model defaults, with or without a
\* resume URL
NewCandidate(file) ==
    [parsing_status |-> "not_parsed", resume_data |-> NULL,
     resume_file |-> file, updated_at |-> 0]

\* a document: the bytes are what the name says
Document(name, content, text, ocr) ==
    [name |-> name, content |-> content, text |-> text, ocr |-> ocr]

\* how far below and above 50 characters the text layers of the PDFs range
TextSpread == 1

RECURSIVE Chars(_)
\* a text of n characters
Chars(n) == IF n = 0 THEN "" ELSE "a" \o Chars(n - 1)

\* text layers: empty, or around the OCR threshold, bare or inside whitespace
TextLayers ==
    {""} \cup {Chars(n) : n \in (MinTextLayer - TextSpread)..(MinTextLayer + TextSpread)}
         \cup {" " \o Chars(n) \o " \n" :
                  n \in (MinTextLayer - TextSpread)..(MinTextLayer + TextSpread)}

\* what OCR reads from the rendered pages or the picture
OcrTexts == {"", " scanned resume text\n"}

\* resume files: PDFs with and without text layer, a DOCX, pictures, and
\* files of other formats
Documents ==
    {Document(name, "pdf", text, ocr) :
        name \in {"cv.pdf", "CV.PDF"}, text \in TextLayers, ocr \in OcrTexts}
    \cup {Document("cv.docx", "docx", text, "") : text \in {"", "Jane Doe\nPython"}}
    \cup {Document(name, "image", "", ocr) :
            name \in {"cv.png", "cv.jpeg", "scan.TIF"}, ocr \in OcrTexts}
    \cup {Document(name, "other", "Jane Doe", "") :
            name \in {"cv.txt", "cv.doc", "cv", "cv.v2"}}

Hosts == [paddle : BOOLEAN, mime_types : BOOLEAN]

\* the resume of the life-cycle behaviours: a PDF with a text layer, on a
\* host where PaddleOCR loads
FileFixture ==
    /\ document = Document("cv.pdf", "pdf",
                           "Jane Doe, engineer: Python, Django and SQL since 2015.", "")
    /\ host = [paddle |-> TRUE, mime_types |-> TRUE]
    /\ extraction = NoExtraction

\* the extraction side at rest
ParseIdle ==
    /\ cand \in {NewCandidate(file) : file \in BOOLEAN}
    /\ queue = [r \in 0..max_retries |-> 0]
    /\ worker = [w \in Workers |-> IdleWorker]
    /\ submissions = 0
    /\ now = 0
    /\ marked_at = 0

SqlInit ==
    /\ ParseIdle
    /\ FileFixture
    /\ cand.resume_file
    /\ RankIdle
    /\ job = NewJobPost(0, FALSE)
    /\ RankFixture
    /\ expanded # None
    /\ sql \in Inputs
    /\ sqlite \in BOOLEAN
    /\ pc = "call"
    /\ clean = ""
    /\ error = <<>>
    /\ executed = <<>>

\* safe_sql_query running the statement it was given instead of the sanitized one
safe_sql_query_raw ==
    /\ pc = "call"
    /\ LET r == validate_and_sanitize_sql(sql, sqlite)
       IN  IF r.kind = "return"
           THEN /\ clean' = r.sql
                /\ executed' = Append(executed, sql)
                /\ pc' = "returned"
                /\ error' = error
           ELSE /\ \E m \in r.msgs : error' = <<r.kind, m>>
                /\ pc' = "raised"
                /\ UNCHANGED <<clean, executed>>
    /\ UNCHANGED <<sql, sqlite>>
    /\ UNCHANGED parsevars
    /\ UNCHANGED rankvars
    /\ UNCHANGED extractvars

\* safe_sql_query: validate, then run the returned statement on the database
safe_sql_query ==
    /\ pc = "call"
    /\ LET r == validate_and_sanitize_sql(sql, sqlite)
       IN  IF r.kind = "return"
           THEN /\ clean' = r.sql
                /\ executed' = Append(executed, r.sql)
                /\ pc' = "returned"
                /\ error' = error
           ELSE /\ \E m \in r.msgs : error' = <<r.kind, m>>
                /\ pc' = "raised"
                /\ UNCHANGED <<clean, executed>>
    /\ UNCHANGED <<sql, sqlite>>
    /\ UNCHANGED parsevars
    /\ UNCHANGED rankvars
    /\ UNCHANGED extractvars

SqlNext == safe_sql_query

SpecSql == SqlInit /\ [][SqlNext]_vars

-----------------------------------------------------------------------------
(* The extraction life cycle: endpoint, workers, sweep and clock *)

ParseInit ==
    /\ ParseIdle
    /\ FileFixture
    /\ RankIdle
    /\ job = NewJobPost(0, FALSE)
    /\ RankFixture
    /\ expanded # None
    /\ sql = ""
    /\ sqlite = FALSE
    /\ pc = "none"
    /\ clean = ""
    /\ error = <<>>
    /\ executed = <<>>

ParseNext ==
    \/ parse_resume_data
    \/ \E w \in Workers : TaskFetch(w)
    \/ \E w \in Workers : TaskMark(w)
    \/ \E w \in Workers : TaskSucceed(w)
    \/ \E w \in Workers : TaskExcept(w)
    \/ \E w \in Workers : TaskKilled(w)
    \/ cleanup_failed_parsing_tasks
    \/ Tick

SpecParse == ParseInit /\ [][ParseNext]_vars

-----------------------------------------------------------------------------
(* The ranking life cycle: endpoint, workers, sweep and clock *)

RankInit ==
    /\ ParseIdle
    /\ FileFixture
    /\ cand.resume_file
    /\ RankIdle
    /\ ~job.visa_required
    /\ RankFixture
    /\ sql = ""
    /\ sqlite = FALSE
    /\ pc = "none"
    /\ clean = ""
    /\ error = <<>>
    /\ executed = <<>>

RankNext ==
    \/ rank_candidates
    \/ \E w \in RankWorkers : RankStart(w)
    \/ \E w \in RankWorkers : RankAlgoSave(w)
    \/ \E w \in RankWorkers : RankSave(w)
    \/ \E w \in RankWorkers : RankAlgoRaise(w)
    \/ \E w \in RankWorkers : RankTimeout(w)
    \/ \E w \in RankWorkers : RankKilled(w)
    \/ cleanup_failed_ranking_tasks
    \/ Tick

SpecRank == RankInit /\ [][RankNext]_vars

-----------------------------------------------------------------------------
(* The ranking life cycle with one worker and the job post edited by its     *)
(* owner meanwhile                                                           *)

FrameInit == RankInit

FrameNext ==
    \/ rank_candidates
    \/ update
    \/ RankStart(1)
    \/ RankAlgoSave(1)
    \/ RankSave(1)
    \/ RankAlgoRaise(1)
    \/ cleanup_failed_ranking_tasks

SpecFrame == FrameInit /\ [][FrameNext]_vars

-----------------------------------------------------------------------------
(* Either life cycle with one worker, under a clock that runs past the       *)
(* longer timeout, the clock and the two periodic sweeps scheduled fairly    *)

\* the first instant at which a record created at 0 is older than both timeouts
Horizon == RankingTimeout + 1

\* the clock up to Horizon
Elapse ==
    /\ now < Horizon
    /\ now' = now + 1
    /\ UNCHANGED <<cand, queue, worker, submissions, marked_at>>
    /\ UNCHANGED sqlvars
    /\ UNCHANGED rankvars
    /\ UNCHANGED extractvars

\* a job post ranked at time 0 over the fixture, as the ranking run leaves it
RankedJobPost ==
    [NewJobPost(0, FALSE) EXCEPT
        !.ranking_status = "ranked",
        !.ranking_task_id = 1,
        !.candidate_ranking_data =
            Some(ranking_data(ranking_algo(NewJobPost(0, FALSE), Table(2, 3),
                                           Some(<<"Python ", "django", "SQL">>),
                                           [id \in 1..MaxCandidates |-> Good(id)])))]

\* requests reach one of the two records: either the candidate has a resume
\* and the job post is ranked already, or the candidate has no resume and the
\* job post was never ranked; the other record has had its requests
LiveInit ==
    /\ queue = [r \in 0..max_retries |-> 0]
    /\ worker = [w \in Workers |-> IdleWorker]
    /\ now = 0
    /\ marked_at = 0
    /\ rqueue = {}
    /\ rworker = [w \in RankWorkers |-> IdleRankWorker]
    /\ ranking_at = 0
    /\ execs = [d \in 1..MaxRankSubmissions |-> 0]
    /\ \/ /\ cand = NewCandidate(TRUE)
          /\ submissions = 0
          /\ job = RankedJobPost
          /\ rsubs = MaxRankSubmissions
       \/ /\ cand = NewCandidate(FALSE)
          /\ submissions = MaxSubmissions
          /\ job \in {NewJobPost(0 - age, FALSE) : age \in {0, RankingTimeout + 1}}
          /\ rsubs = 0
    /\ FileFixture
    /\ RankFixture
    /\ expanded # None
    /\ sql = ""
    /\ sqlite = FALSE
    /\ pc = "none"
    /\ clean = ""
    /\ error = <<>>
    /\ executed = <<>>

LiveNext ==
    \/ parse_resume_data
    \/ TaskFetch(1)
    \/ TaskMark(1)
    \/ TaskSucceed(1)
    \/ TaskExcept(1)
    \/ TaskKilled(1)
    \/ cleanup_failed_parsing_tasks
    \/ rank_candidates
    \/ RankStart(1)
    \/ RankAlgoSave(1)
    \/ RankSave(1)
    \/ RankKilled(1)
    \/ cleanup_failed_ranking_tasks
    \/ Elapse

SpecLive ==
    /\ LiveInit
    /\ [][LiveNext]_vars
    /\ WF_vars(Elapse)
    /\ WF_vars(cleanup_failed_parsing_tasks)
    /\ WF_vars(cleanup_failed_ranking_tasks)

-----------------------------------------------------------------------------
(* Extraction of the resume files: parse_resume called on the file itself,   *)
(* and parse_resume_task run by one worker                                   *)

ExtractInit ==
    /\ ParseIdle
    /\ cand.resume_file
    /\ document \in Documents
    /\ host \in Hosts
    /\ extraction = NoExtraction
    /\ RankIdle
    /\ job = NewJobPost(0, FALSE)
    /\ RankFixture
    /\ expanded # None
    /\ sql = ""
    /\ sqlite = FALSE
    /\ pc = "none"
    /\ clean = ""
    /\ error = <<>>
    /\ executed = <<>>

ExtractNext ==
    \/ parse_resume_call
    \/ parse_resume_data
    \/ TaskFetch(1)
    \/ TaskMark(1)
    \/ TaskSucceed(1)
    \/ TaskParseRaise(1)

SpecExtract == ExtractInit /\ [][ExtractNext]_vars

-----------------------------------------------------------------------------
(* One worker ranking a job post over the tables, expansions and answers;    *)
(* when the skill expansion raises, the table and the answers play no part   *)

AlgoInit ==
    /\ ParseIdle
    /\ FileFixture
    /\ cand.resume_file
    /\ RankIdle
    /\ job.created_at = 0
    /\ pool \in CandidateTables
    /\ expanded \in Expansions
    /\ llm \in Answers
    /\ expanded = None => (pool = Table(1, MaxCandidates) /\ llm = [id \in 1..MaxCandidates |-> Good(id)])
    /\ sql = ""
    /\ sqlite = FALSE
    /\ pc = "none"
    /\ clean = ""
    /\ error = <<>>
    /\ executed = <<>>

\* the one request of these behaviours: the first for the job post
rank_candidates_first ==
    /\ rsubs = 0
    /\ rank_candidates

AlgoNext ==
    \/ rank_candidates_first
    \/ RankStart(1)
    \/ RankAlgoSave(1)
    \/ RankSave(1)
    \/ RankAlgoRaise(1)
    \/ RankTimeout(1)

SpecAlgo == AlgoInit /\ [][AlgoNext]_vars

-----------------------------------------------------------------------------
(* How SQL reads a statement: the reference the guardrail claims are         *)
(* measured against                                                          *)

\* positions where kw stands as a whole word of the lowered statement sl
KeywordStarts(sl, kw) ==
    {i \in Occurrences(sl, kw) : boundary(sl, i - 1) /\ boundary(sl, i + Len(kw) - 1)}

\* position i lies inside a '...' literal
InLiteral(sl, i) == Cardinality({j \in 1..(i - 1) : Char(sl, j) = "'"}) % 2 = 1

\* position i lies inside parentheses
InParens(sl, i) ==
    Cardinality({j \in 1..(i - 1) : Char(sl, j) = "("})
        > Cardinality({j \in 1..(i - 1) : Char(sl, j) = ")"})

\* first position at or after i that holds no whitespace (Len + 1 if none)
SkipSpace(sl, i) == runEnd(sl, i, Whitespace) + 1

RECURSIVE FromList(_, _)
\* the tables of the list that starts at position p: a (possibly qualified,
\* possibly quoted) name, and after a comma the next one
FromList(sl, p) ==
    LET b == SkipSpace(sl, p)
        e == runEnd(sl, b, WordChars \cup {".", "\""})
        name == lastPart(replace(SubSeq(sl, b, e), "\"", ""), ".")
        c == SkipSpace(sl, e + 1)
    IN  IF e < b THEN {}
        ELSE {name} \cup (IF c <= Len(sl) /\ Char(sl, c) = ","
                          THEN FromList(sl, c + 1) ELSE {})

\* every table the statement reads: after FROM or JOIN, and the further
\* tables of a comma-separated list
ReferencedTables(s) ==
    LET sl == lower(s)
    IN  UNION {FromList(sl, i + 4) :
                i \in {j \in KeywordStarts(sl, "from") \cup KeywordStarts(sl, "join") :
                          ~InLiteral(sl, j)}}

\* the items of the SELECT list: the text between the first SELECT keyword and
\* the first FROM keyword after it, split at commas
SelectItems(s) ==
    LET sl == lower(s)
        S == KeywordStarts(sl, "select")
        b == IF S = {} THEN 1 ELSE Min(S) + 6
        F == {i \in KeywordStarts(sl, "from") : i >= b}
        e == IF F = {} THEN Len(sl) ELSE Min(F) - 1
        items == split(SubSeq(sl, b, e), ",")
    IN  {items[i] : i \in 1..Len(items)}

\* the column an item names: its first token (an alias, with or without AS,
\* follows it), without table qualifier
ItemColumn(item) ==
    IF splitFirst(item) = <<>> THEN "" ELSE lastPart(splitFirst(item)[1], ".")

\* the columns named in the SELECT list, * excluded
NamedColumns(s) == {ItemColumn(it) : it \in SelectItems(s)} \ {"*"}

\* the columns whose values the statement returns: * stands for every column
ReturnedColumns(s) ==
    UNION {IF ItemColumn(it) = "*" THEN CandidateProfileColumns ELSE {ItemColumn(it)} :
             it \in SelectItems(s)}

WriteKeywords == {"insert", "update", "delete", "drop", "alter", "truncate", "create"}

FtsFunctions ==
    {"to_tsvector", "to_tsquery", "plainto_tsquery", "phraseto_tsquery",
     "websearch_to_tsquery"}

\* a write keyword or a full-text-search function as a word, or the @@ operator
HasForbidden(s) ==
    LET sl == lower(s)
    IN  \/ \E kw \in WriteKeywords \cup FtsFunctions : KeywordStarts(sl, kw) # {}
        \/ contains(sl, "@@")

\* some WHERE keyword is followed by a condition on is_available
WhereFiltersAvailability(s) ==
    LET sl == lower(s)
    IN  \E i \in KeywordStarts(sl, "where") :
            \E j \in Occurrences(sl, "is_available") : j > i

\* the row limit of the statement: the number of its own LIMIT clause (outside
\* literals and parentheses; the last one), -1 when it has none
LimitOf(s) ==
    LET sl == lower(s)
        L == {i \in KeywordStarts(sl, "limit") :
                 /\ ~InLiteral(sl, i) /\ ~InParens(sl, i)
                 /\ limitMatchAt(sl, i)[1] # 0}
    IN  IF L = {} THEN -1
        ELSE LET m == limitMatchAt(sl, Max(L)) IN int(SubSeq(sl, m[2], m[1]))

\* a semicolon stands before the last character of the trimmed statement
InnerSemicolon(s) ==
    LET t == strip(s) IN \E i \in 1..(Len(t) - 1) : Char(t, i) = ";"

\* a semicolon of the trimmed statement is followed by something else than
\* semicolons
SemicolonThenText(s) ==
    LET t == strip(s)
    IN  \E i \in 1..Len(t) : \E j \in (i + 1)..Len(t) :
            Char(t, i) = ";" /\ Char(t, j) # ";"

Accepted == pc = "returned"

RaisedWith(msg) == pc = "raised" /\ error = <<"ValueError", msg>>

RaisedColumn == pc = "raised" /\ startswith(error[2], "Column not allowed: ")

-----------------------------------------------------------------------------
(* Claims about the guardrail, checked under SpecSql *)

\* C1: every table an accepted statement references (after FROM or JOIN with
\* any whitespace, and each further table of a comma list) is
\* candidates_candidateprofile.
C1_OnlyAllowedTables == Accepted => ReferencedTables(sql) \subseteq ALLOWED_TABLES

\* C2: the columns whose values an executed statement returns are all in
\* ALLOWED_COLUMNS, whatever the form of the SELECT list.
C2_OnlyAllowedColumnsReturned ==
    \A k \in 1..Len(executed) : ReturnedColumns(executed[k]) \subseteq ALLOWED_COLUMNS

\* C3: the column check rejects a statement exactly when some column named in
\* its SELECT list (between SELECT and the FROM keyword, split at commas, alias
\* and qualifier stripped, * excluded) is not in ALLOWED_COLUMNS.
C3_ColumnCheckExact ==
    (Accepted \/ RaisedColumn \/ (pc = "raised" /\ error[1] = "AttributeError"))
        => (RaisedColumn <=> ~(NamedColumns(sql) \subseteq ALLOWED_COLUMNS))

\* C4: a statement that contains a write keyword as a word in any case, a
\* full-text-search function or the @@ operator is rejected and nothing is run.
C4_ForbiddenRejected ==
    (pc # "call" /\ HasForbidden(sql)) => (pc = "raised" /\ executed = <<>>)

\* C5: a statement is run only after validate_and_sanitize_sql returned for it,
\* and it is the returned one; when a check fails nothing is run and the error
\* is raised to the caller.
C5_RunsOnlyTheSanitized ==
    /\ pc = "call" => executed = <<>>
    /\ pc = "raised" =>
            /\ executed = <<>>
            /\ validate_and_sanitize_sql(sql, sqlite).kind = error[1]
            /\ error[2] \in validate_and_sanitize_sql(sql, sqlite).msgs
    /\ pc = "returned" =>
            /\ validate_and_sanitize_sql(sql, sqlite).kind = "return"
            /\ executed = <<validate_and_sanitize_sql(sql, sqlite).sql>>
            /\ error = <<>>

\* C5 witness: a statement was rewritten by the guardrail and then run
C5_Witness == pc = "returned" /\ executed = <<clean>> /\ clean # sql

\* C6: the sanitized output of every accepted statement has a WHERE clause
\* with a condition on is_available.
C6_AlwaysFiltersAvailability == Accepted => WhereFiltersAvailability(clean)

\* C7: no LIMIT -> LIMIT 10; LIMIT n > 20 -> LIMIT 20; LIMIT n <= 20 unchanged;
\* every sanitized output carries a LIMIT of at most 20.
C7_LimitEnforced ==
    Accepted =>
        LET n == LimitOf(sql)
            m == LimitOf(clean)
        IN  /\ n = -1 => m = DEFAULT_LIMIT
            /\ n > MAX_LIMIT => m = MAX_LIMIT
            /\ (n >= 0 /\ n <= MAX_LIMIT) => m = n
            /\ m >= 0 /\ m <= MAX_LIMIT

\* C8 as stated: a statement with a semicolon anywhere but at its very end is
\* rejected, and one whose only semicolon is the trailing one is not rejected by
\* the semicolon check.
C8_InnerSemicolonRejected ==
    /\ (pc # "call" /\ InnerSemicolon(sql)) => pc = "raised"
    /\ RaisedWith("Multiple statements blocked") => InnerSemicolon(sql)

\* C8 amended: among the statements that reach the semicolon check, it rejects
\* exactly those in which a semicolon is followed, before the trimmed end, by
\* a character that is no semicolon; a run of trailing semicolons passes.
C8_SemicolonCheckExact ==
    (pc # "call" /\ ~RaisedWith("Only SELECT allowed"))
        => (RaisedWith("Multiple statements blocked") <=> SemicolonThenText(sql))

\* C8 witness: a stacked statement was rejected by the semicolon check
C8_Witness == RaisedWith("Multiple statements blocked") /\ SemicolonThenText(sql)

\* C9: the first check rejects exactly the statements that, trimmed, do not
\* begin with SELECT (case-insensitively).
C9_FirstCheckExact ==
    pc # "call" =>
        (RaisedWith("Only SELECT allowed") <=> ~startswith(lower(strip(sql)), "select"))

-----------------------------------------------------------------------------
(* Claims about the extraction life cycle, checked under SpecParse *)

\* C10: resume_data is non-null if and only if parsing_status = 'parsed'.
C10_DataIffParsed == (cand.resume_data # NULL) <=> (cand.parsing_status = "parsed")

-----------------------------------------------------------------------------
(* Claims about the two life cycles, checked under SpecParse and SpecRank *)

\* the dispatches of rank_candidates_task that are queued or being executed
RankingRuns ==
    {t.id : t \in rqueue}
    \cup {rworker[w].id : w \in {v \in RankWorkers : rworker[v].pc # "idle"}}

RECURSIVE QueuedFrom(_)
\* the queued executions of parse_resume_task numbered r or higher
QueuedFrom(r) == IF r > max_retries THEN 0 ELSE queue[r] + QueuedFrom(r + 1)

\* the executions of parse_resume_task that are queued or being carried out
ParsingRuns == QueuedFrom(0) + Cardinality({w \in Workers : worker[w].pc # "idle"})

\* C11: candidate_ranking_data is non-null if and only if ranking_status =
\* 'ranked', in every reachable state of the job post.
C11_RankingDataIffRanked ==
    (job.candidate_ranking_data # None) <=> (job.ranking_status = "ranked")

\* C12: at most one ranking run of the job post is in progress (dispatched and
\* not finished) at any time.
C12_SingleRankingRun == Cardinality(RankingRuns) <= 1

\* C12, extraction side (under SpecParse): at most one extraction run of the
\* candidate is queued or being carried out at any time.
C12_SingleParsingRun == ParsingRuns <= 1

AllowedParsingSteps ==
    {<<"not_parsed", "parsing">>, <<"parsing", "parsed">>, <<"parsing", "failed">>,
     <<"failed", "parsing">>, <<"parsing", "not_parsed">>}

\* C13: parsing_status changes only along not_parsed -> parsing, parsing ->
\* parsed, parsing -> failed, failed -> parsing and the sweep's parsing ->
\* not_parsed, and when the endpoint has dispatched a task (answer: parsing
\* started) the persisted status is parsing.
C13_ParsingTransitions ==
    [][/\ cand'.parsing_status # cand.parsing_status
            => <<cand.parsing_status, cand'.parsing_status>> \in AllowedParsingSteps
       /\ queue'[0] > queue[0] => cand'.parsing_status = "parsing"]_vars

\* C14: a step of cleanup_failed_parsing_tasks resets a candidate that is in
\* parsing since more than one hour, leaves alone one that the task marked
\* parsing less than one hour ago, and touches no other status.
C14_SweepResetsOnlyStuckParsing ==
    [][cleanup_failed_parsing_tasks =>
         /\ (cand.parsing_status = "parsing" /\ now - marked_at > TicksPerHour)
                => cand'.parsing_status = "not_parsed"
         /\ (cand.parsing_status = "parsing" /\ now - marked_at < TicksPerHour)
                => cand'.parsing_status = "parsing"
         /\ cand.parsing_status # "parsing"
                => cand'.parsing_status = cand.parsing_status]_vars

\* C15: a step of cleanup_failed_ranking_tasks resets a job post that is in
\* ranking since more than two hours, and leaves alone one that entered
\* ranking less than two hours ago, however long ago it was created.
C15_SweepResetsOnlyStuckRanking ==
    [][cleanup_failed_ranking_tasks =>
         /\ (job.ranking_status = "ranking" /\ now - ranking_at > RankingTimeout)
                => job'.ranking_status = "not_ranked"
         /\ (job.ranking_status = "ranking" /\ now - ranking_at < RankingTimeout)
                => job'.ranking_status = "ranking"
         /\ job.ranking_status # "ranking"
                => job'.ranking_status = job.ranking_status]_vars

\* the dispatch d has used up its executions and none is queued or running
Exhausted(d) == execs[d] = 1 + max_retries /\ d \notin RankingRuns

\* the status stops being failed in this step
LeavesFailed == job.ranking_status = "failed" /\ job'.ranking_status # "failed"

-----------------------------------------------------------------------------
(* Claims about the ranking algorithm, checked under SpecAlgo *)

\* the eligibility filter of the specification
Eligible(j, c) ==
    c.is_available /\ c.resume_data # None /\ (j.visa_required => c.has_workvisa)

\* the row of the table with the given id
Row(id) == CHOOSE c \in Range(pool) : c.id = id

\* the ids of a sequence of candidates
Ids(q) == [i \in 1..Len(q) |-> q[i].id]

\* the scoring of a candidate fails: the call raises, the content is no JSON,
\* score or reasons is missing, or the score is no number
ScoringFails(r) ==
    \/ r.kind # "json"
    \/ r.score.type # "num"
    \/ ~r.has_reasons

\* the entry the claim describes for candidate c
IsolatedEntry(c) ==
    IF ScoringFails(llm[c.id])
    THEN [candidate_id |-> c.id, score |-> Num(0), reasons |-> <<"Ranking error">>]
    ELSE [candidate_id |-> c.id, score |-> llm[c.id].score, reasons |-> llm[c.id].reasons]

\* the entries persisted on the job post
PersistedRanking ==
    IF job.candidate_ranking_data = None THEN <<>>
    ELSE job.candidate_ranking_data[1].ranked_candidates

\* C17: whatever one scoring call answers, final_rank_with_llm returns one
\* entry per selected candidate, the entry of a candidate whose scoring failed
\* is score 0 with reasons ["Ranking error"], every other entry is the one
\* its answer gives, and the algorithm returns (the run ends in ranked).
C17_FailureIsolatedPerCandidate ==
    \A w \in RankWorkers :
        (rworker[w].pc = "in_algo" /\ expanded # None) =>
            \E sel \in {selected(job, pool, expand_job_skills(expanded[1]))} :
            \E fr \in {final_rank_with_llm(job, sel, llm)} :
                /\ fr.kind = "return"
                /\ Len(fr.ranked) = Len(sel)
                /\ \A i \in 1..Len(sel) : IsolatedEntry(sel[i]) \in Range(fr.ranked)

\* C18: every candidate the heuristic evaluates, every candidate sent to
\* scoring and every candidate of the persisted ranking is available, has
\* resume_data, and has a work visa when the job requires one.
C18_OnlyEligibleCandidates ==
    /\ \A w \in RankWorkers :
          rworker[w].pc = "in_algo" =>
              \A c \in Range(candidates_qs(job, pool)) : Eligible(job, c)
    /\ \A w \in RankWorkers :
          \A id \in Range(rworker[w].result.calls) : Eligible(job, Row(id))
    /\ \A e \in Range(PersistedRanking) : Eligible(job, Row(e.candidate_id))

\* C18 witness: a ranking was persisted for a job that requires a visa while a
\* candidate without one has a higher skill overlap than every ranked candidate
C18_Witness ==
    /\ job.visa_required
    /\ job.ranking_status = "ranked"
    /\ PersistedRanking # <<>>
    /\ \E c \in Range(pool) :
          /\ c.resume_data # None
          /\ ~c.has_workvisa
          /\ \A e \in Range(PersistedRanking) :
                overlap(c, expand_job_skills(expanded[1]))
                    > overlap(Row(e.candidate_id), expand_job_skills(expanded[1]))

\* C19: the candidates scored are the first five of the heuristic order; when
\* these are fewer than three, eligible candidates are added up to min(3,
\* number of eligible candidates), otherwise none; at most five calls are made
\* and no candidate is scored twice.
C19_SelectionBounded ==
    \A w \in RankWorkers :
        rworker[w].pc = "algo_done" =>
            \E calls \in {rworker[w].result.calls} :
            \E top \in {Ids(take(heuristic_order(job, pool, expand_job_skills(expanded[1])), 5))} :
            \E qs \in {Ids(candidates_qs(job, pool))} :
                /\ take(calls, Len(top)) = top
                /\ Len(top) >= 3 => calls = top
                /\ Len(top) < 3 =>
                      /\ Len(calls) = Min({3, Len(qs)})
                      /\ Range(calls) \subseteq Range(qs)
                /\ Len(calls) <= 5
                /\ Cardinality(Range(calls)) = Len(calls)

\* C19 witness: more than five candidates have a nonzero overlap and five were
\* scored
C19_Witness ==
    \E w \in RankWorkers :
        /\ rworker[w].pc = "algo_done"
        /\ Len(heuristic_order(job, pool, expand_job_skills(expanded[1]))) > 5
        /\ Len(rworker[w].result.calls) = 5

\* C20: every persisted entry carries a number from 0 to 100 as its score.
C20_ScoresWithinScale ==
    \A e \in Range(PersistedRanking) :
        e.score.type = "num" /\ e.score.v >= 0 /\ e.score.v <= 100

\* the place of x in the sequence q
Pos(q, x) == CHOOSE i \in 1..Len(q) : q[i] = x

\* the entries are in descending order of score, equal scores in the order of
\* the selection
OrderedStable(ranked, calls) ==
    \A a, b \in 1..Len(ranked) :
        a < b =>
            /\ ranked[a].score.type = "num" /\ ranked[b].score.type = "num"
            /\ ranked[a].score.v >= ranked[b].score.v
            /\ ranked[a].score.v = ranked[b].score.v =>
                  Pos(calls, ranked[a].candidate_id) < Pos(calls, ranked[b].candidate_id)

-----------------------------------------------------------------------------
(* Claims about the text extraction, checked under SpecExtract *)

UnsupportedFormat == "ValueError: Unsupported file format"

\* the document is no PDF, no DOCX and no picture
Unclassifiable == document.content = "other"

\* C22: every parse_resume run on a file that is no PDF, DOCX or picture ends
\* with the unsupported-format error, and when parse_resume_task made the run
\* the candidate is failed and no retry is scheduled.
C22_UnsupportedIsFatal ==
    /\ []((extraction.kind # "none" /\ Unclassifiable) => extraction.kind = UnsupportedFormat)
    /\ [][(Unclassifiable /\ \E w \in Workers : TaskParseRaise(w))
            => (cand'.parsing_status = "failed" /\ queue' = queue)]_vars

\* C23: whoever calls parse_resume, on the file's own path or from
\* parse_resume_task, a PDF is read by parse_pdf_text (then parse_pdf_ocr at
\* most), a DOCX by parse_docx_text and a picture by parse_image_text.
C23_RouteByFileType ==
    extraction.kind # "none" =>
        /\ document.content = "pdf" =>
              extraction.route \in {<<"parse_pdf_text">>, <<"parse_pdf_text", "parse_pdf_ocr">>}
        /\ document.content = "docx" => extraction.route = <<"parse_docx_text">>
        /\ document.content = "image" => extraction.route = <<"parse_image_text">>

\* C24: for a PDF the extraction returns; parse_pdf_ocr is called exactly when
\* the trimmed text layer has fewer than 50 characters; without the call the
\* result is the trimmed text layer, with it the result is what OCR reads, or
\* "" when PaddleOCR does not load.
C24_OcrOnlyBelowThreshold ==
    (extraction.kind # "none" /\ document.content = "pdf") =>
        /\ extraction.kind = "return"
        /\ ("parse_pdf_ocr" \in Range(extraction.route)) <=> (Len(strip(document.text)) < 50)
        /\ Len(strip(document.text)) >= 50 => extraction.text = strip(document.text)
        /\ Len(strip(document.text)) < 50 =>
              extraction.text = IF host.paddle THEN strip(document.ocr) ELSE ""

\* C24 witness: a PDF whose page holds 50 or more characters but fewer than 50
\* without the surrounding whitespace was extracted on a host where PaddleOCR
\* does not load: the call returned ""
C24_Witness ==
    /\ document.content = "pdf"
    /\ Len(document.text) >= 50
    /\ Len(strip(document.text)) < 50
    /\ document.ocr # ""
    /\ ~host.paddle
    /\ extraction.kind = "return"
    /\ extraction.text = ""
    /\ extraction.route = <<"parse_pdf_text", "parse_pdf_ocr">>

-----------------------------------------------------------------------------
(* Claims about the sweeps as a liveness mechanism, checked under SpecLive *)

\* no extraction run of the candidate is queued or executing
NoParsingRun ==
    /\ \A r \in DOMAIN queue : queue[r] = 0
    /\ \A w \in Workers : worker[w].pc = "idle"

\* no ranking run of the job post is queued or executing
NoRankingRun ==
    /\ rqueue = {}
    /\ \A w \in RankWorkers : rworker[w].pc = "idle"

\* C25: with the clock and the two sweeps scheduled fairly, and nothing
\* assumed about the workers, a candidate in parsing leaves parsing and a job
\* post in ranking leaves ranking; when no run is queued or executing any
\* more, the record is reset to not_parsed, respectively not_ranked.
C25_SweepsReclaimStuckRecords ==
    /\ (cand.parsing_status = "parsing") ~> (cand.parsing_status # "parsing")
    /\ (job.ranking_status = "ranking") ~> (job.ranking_status # "ranking")
    /\ (cand.parsing_status = "parsing" /\ NoParsingRun)
            ~> (cand.parsing_status = "not_parsed")
    /\ (job.ranking_status = "ranking" /\ NoRankingRun)
            ~> (job.ranking_status = "not_ranked")

\* C25 witness, extraction side: the worker was killed after marking the
\* candidate at a time after 0, and the candidate has been reset
C25_Witness ==
    /\ marked_at > 0
    /\ NoParsingRun
    /\ cand.resume_data = NULL
    /\ cand.parsing_status = "not_parsed"
    /\ now > TicksPerHour
    /\ submissions = MaxSubmissions

-----------------------------------------------------------------------------
(* Claims about the token accounting and the heuristic, checked under        *)
(* SpecAlgo                                                                  *)

\* the per-call counts of the scoring calls of a result
ScoringUsage(calls) ==
    [i \in 1..Len(calls) |-> call_usage(job, Row(calls[i]), llm[calls[i]])]

\* the cost of the reported totals, in units of 0.00001
CostOf(usage) == usage.input_tokens + 3 * usage.output_tokens

\* C26: in every result, input_tokens and output_tokens are the sums of the
\* counts of the scoring calls of the run, failed ones included, total_tokens
\* is their sum, and estimated_cost is the cost of these totals at 0.01 per
\* 1000 input and 0.03 per 1000 output tokens.
C26_TokenTotalsAndCost ==
    \A w \in RankWorkers :
        rworker[w].pc = "algo_done" =>
            \E res \in {rworker[w].result} :
            \E use \in {ScoringUsage(res.calls)} :
                /\ res.token_usage.input_tokens
                     = Sum([i \in 1..Len(use) |-> use[i].input])
                /\ res.token_usage.output_tokens
                     = Sum([i \in 1..Len(use) |-> use[i].output])
                /\ res.token_usage.total_tokens
                     = res.token_usage.input_tokens + res.token_usage.output_tokens
                /\ res.estimated_cost = CostOf(res.token_usage)

\* the skill names of a candidate's resume_data
SkillNames(c) ==
    {strip(lower(c.resume_data[1].skills[i])) : i \in 1..Len(c.resume_data[1].skills)}

\* the skill overlap as the claim states it
StatedOverlap(c, ex) ==
    IF Range(ex) \cap SkillNames(c) # {}
    THEN Cardinality(Range(ex) \cap SkillNames(c))
    ELSE Cardinality({i \in 1..Len(ex) : contains(lower(dumps(c.resume_data[1])), ex[i])})

\* 1 when the text is among the preferences, whatever the case of the letters
StatedBonus(text, preferences) ==
    IF \E i \in 1..Len(preferences) : lower(preferences[i]) = lower(text) THEN 1 ELSE 0

StatedScore(c, ex) ==
    3 * StatedOverlap(c, ex)
    + StatedBonus(WORKPLACE_TYPES[job.workplace_type], c.work_mode_preferences)
    + StatedBonus(WORK_TYPES[job.job_type], c.employment_type_preferences)

\* C27: the heuristic entries are those of the eligible candidates with a
\* nonzero overlap, each with the score 3 * overlap + work-mode bonus +
\* employment-type bonus, overlap and bonuses as stated; the heuristic order
\* is descending in this score.
C27_HeuristicScore ==
    \A w \in RankWorkers :
        (rworker[w].pc = "in_algo" /\ expanded # None) =>
            \E ex \in {expand_job_skills(expanded[1])} :
            \E sc \in {scored(job, pool, ex)} :
            \E order \in {heuristic_order(job, pool, ex)} :
                /\ [i \in 1..Len(sc) |-> sc[i].c]
                     = SelectSeq(pool, LAMBDA c : Eligible(job, c) /\ StatedOverlap(c, ex) > 0)
                /\ \A i \in 1..Len(sc) : sc[i].score = StatedScore(sc[i].c, ex)
                /\ Len(order) = Len(sc)
                /\ \A a, b \in 1..Len(order) :
                      a < b => StatedScore(order[a], ex) >= StatedScore(order[b], ex)

\* C27 witness: the heuristic ran over a candidate matched only through the
\* serialized resume_data, a candidate whose preference differs in case from
\* the job's work mode, and an eligible candidate with no overlap
C27_Witness ==
    /\ rworker[1].pc = "algo_done"
    /\ expanded # None
    /\ \E c \in Range(pool) :
          /\ Eligible(job, c)
          /\ Range(expand_job_skills(expanded[1])) \cap SkillNames(c) = {}
          /\ StatedOverlap(c, expand_job_skills(expanded[1])) > 0
    /\ \E c \in Range(pool) :
          /\ Eligible(job, c)
          /\ StatedOverlap(c, expand_job_skills(expanded[1])) > 0
          /\ WORKPLACE_TYPES[job.workplace_type] \notin Range(c.work_mode_preferences)
          /\ StatedBonus(WORKPLACE_TYPES[job.workplace_type], c.work_mode_preferences) = 1
    /\ \E c \in Range(pool) :
          /\ Eligible(job, c)
          /\ expand_job_skills(expanded[1]) # <<>>
          /\ StatedOverlap(c, expand_job_skills(expanded[1])) = 0


-----------------------------------------------------------------------------
(* Claims about the shape of the sanitized statement, checked under SpecSql *)

\* the LIMIT keywords of a lowered statement that stand at the top level
TopLimits(sl) ==
    {i \in KeywordStarts(sl, "limit") : ~InLiteral(sl, i) /\ ~InParens(sl, i)}

\* the semicolons of a lowered statement outside its string literals
Semicolons(sl) == {i \in Occurrences(sl, ";") : ~InLiteral(sl, i)}

\* the guardrail appended its condition: the statement given names no
\* is_available
FilterAppended == Accepted /\ ~contains(lower(sql), "is_available")

\* where the appended condition starts in the sanitized statement
AppendedAt == Len(clean) - Len("is_available = TRUE") + 1

\* C28: in the sanitized output of every accepted statement, a condition the
\* guardrail appends on is_available lies inside the WHERE clause (a WHERE
\* keyword precedes it, no LIMIT clause and no semicolon does), and the LIMIT
\* clause comes after the WHERE keyword and its conditions and before any
\* trailing semicolon.
C28_ClauseOrderKept ==
    Accepted =>
        \E cl \in {lower(clean)} :
            /\ FilterAppended =>
                  /\ at(cl, AppendedAt, "is_available = true")
                  /\ \E w \in KeywordStarts(cl, "where") : w < AppendedAt
                  /\ \A l \in TopLimits(cl) : l > AppendedAt
                  /\ \A k \in Semicolons(cl) : k > AppendedAt
            /\ \A l \in TopLimits(cl) :
                  /\ \A w \in KeywordStarts(cl, "where") :
                        (~InLiteral(cl, w) /\ ~InParens(cl, w)) => w < l
                  /\ \A k \in Semicolons(cl) : k > l

\* C29: validate_and_sanitize_sql either returns a sanitized statement or
\* raises the rejection error, a ValueError that carries a reason; neither it
\* nor the helpers it calls fail with another kind of error.
C29_OnlyRejectionErrors ==
    /\ pc = "raised" => (error[1] = "ValueError" /\ error[2] # "")
    /\ pc # "call" => validate_and_sanitize_sql(sql, sqlite).kind \in {"return", "ValueError"}

-----------------------------------------------------------------------------
(* Claims about what a ranking run writes, checked under SpecFrame *)

\* the fields of a job post a ranking run is not meant to write
OtherFields(j) == [j EXCEPT !.ranking_status = "", !.candidate_ranking_data = None]

\* C30: a step of a ranking run (rank_candidates_task with ranking_algo)
\* changes only ranking_status and candidate_ranking_data of the job post;
\* ranking_task_id and the fields edited through the update endpoint keep the
\* value last written by the other requests.
C30_RunWritesOnlyItsFields ==
    [][rworker' # rworker => OtherFields(job') = OtherFields(job)]_vars
=============================================================================
